---- MODULE Spec2Model ----
(***************************************************************************)
(* State-machine model of the to-do-list program in src/main.cpp.          *)
(* Text is a sequence of one-character strings, so that scanning,          *)
(* formatting and the quoted-field file format are computed on characters. *)
(***************************************************************************)
EXTENDS Integers, Sequences, FiniteSets, TLC

VARIABLES
  pc,             \* where the program is: the prompt it blocks on
  todo_items,     \* the global vector of TodoItem
  file,           \* ./save.csv: whether it exists and its characters
  task,           \* the local TodoItem of add() and edit()
  item_position,  \* the value get_item_position last returned to the command
  cin_line,       \* the line cin >> last extracted from, until the screen is cleared
  msg,            \* the line the running command last reported on cout
  reads,          \* how many times save.csv was opened for reading
  writes,         \* how many times save.csv was opened for writing
  date_str,       \* the line get_date_input last read, the validator's argument
  date_res        \* what the date validator under test returned

vars == <<pc, todo_items, file, task, item_position, cin_line, msg, reads,
          writes, date_str, date_res>>

(* ---------------------------- bounds ----------------------------------- *)

\* longest task list the Add command is allowed to build
MaxItems == 2

\* largest year drawn for the date-validator specification
MaxYear == 405

\* most lines in a backing file drawn for the codec specification
MaxLines == 2

(* ---------------------------- characters ------------------------------- *)

QUOTE == "\""
COMMA == ","
NL == "\n"
SLASH == "/"

\* INT_MAX of the 32-bit int that sscanf's %d and cin >> int fill
IntMax == 2147483647

DigitChars == <<"0", "1", "2", "3", "4", "5", "6", "7", "8", "9">>

IsDigit(c) == \E k \in 1..10 : DigitChars[k] = c

DigitVal(c) == (CHOOSE k \in 1..10 : DigitChars[k] = c) - 1

\* isspace() as used by the scanf directives
IsSpace(c) == c \in {" ", "\t", NL, "\r"}

\* C++ remainder (truncating division), as in year % 400
CRem(a, b) == IF a >= 0 THEN a % b ELSE 0 - ((0 - a) % b)

(* ---------------------------- TodoItem --------------------------------- *)

\* a default-constructed TodoItem
EmptyItem == [title |-> <<>>, description |-> <<>>, due_date |-> <<>>,
              completed |-> FALSE]

\* value of a local int that is not live
NoPos == 0 - 1

(* ---------------------------- operator<<(int) -------------------------- *)

RECURSIVE DecNat(_)
DecNat(n) == IF n < 10 THEN <<DigitChars[n + 1]>>
             ELSE DecNat(n \div 10) \o <<DigitChars[(n % 10) + 1]>>

\* decimal text of an int, as written by stringstream << int
FormatInt(n) == IF n < 0 THEN <<"-">> \o DecNat(0 - n) ELSE DecNat(n)

(* ---------------------------- sscanf "%d /%d /%d" ---------------------- *)

RECURSIVE SkipSpace(_, _)
SkipSpace(s, i) == IF i <= Len(s) /\ IsSpace(s[i]) THEN SkipSpace(s, i + 1) ELSE i

RECURSIVE DigitsEnd(_, _)
DigitsEnd(s, i) == IF i <= Len(s) /\ IsDigit(s[i]) THEN DigitsEnd(s, i + 1) ELSE i

\* value of the digit run s[i..e-1] with sign sgn; ovf set when it leaves int
RECURSIVE Accumulate(_, _, _, _, _)
Accumulate(s, i, e, sgn, acc) ==
  IF i >= e THEN acc
  ELSE LET d == DigitVal(s[i])
           fits == IF sgn = 1
                   THEN acc.val <= (IntMax - d) \div 10
                   ELSE (0 - acc.val) <= (IF d = 0 THEN IntMax \div 10
                                          ELSE (IntMax - (d - 1)) \div 10)
       IN IF acc.ovf \/ ~fits
          THEN Accumulate(s, i + 1, e, sgn, [val |-> 0, ovf |-> TRUE])
          ELSE Accumulate(s, i + 1, e, sgn, [val |-> acc.val * 10 + sgn * d, ovf |-> FALSE])

\* one %d conversion starting at index i; u is what the C library stores
\* when the number does not fit an int (undefined by the C standard)
ScanInt(s, i, u) ==
  LET j == SkipSpace(s, i)
      signed == j <= Len(s) /\ s[j] \in {"+", "-"}
      k == IF signed THEN j + 1 ELSE j
      e == DigitsEnd(s, k)
      sgn == IF signed /\ s[j] = "-" THEN 0 - 1 ELSE 1
      r == Accumulate(s, k, e, sgn, [val |-> 0, ovf |-> FALSE])
  IN IF e = k THEN [ok |-> FALSE, val |-> 0, next |-> j]
     ELSE [ok |-> TRUE, val |-> IF r.ovf THEN u ELSE r.val, next |-> e]

\* the literal " /" of the format: optional white space, then a slash
ScanSlash(s, i) ==
  LET j == SkipSpace(s, i)
  IN IF j <= Len(s) /\ s[j] = SLASH THEN [ok |-> TRUE, next |-> j + 1]
     ELSE [ok |-> FALSE, next |-> j]

\* sscanf(date_str, "%d /%d /%d", &day, &month, &year): the number of
\* conversions made and the values stored
Sscanf(s, u) ==
  LET a == ScanInt(s, 1, u)
      s1 == IF a.ok THEN ScanSlash(s, a.next) ELSE [ok |-> FALSE, next |-> 1]
      b == IF s1.ok THEN ScanInt(s, s1.next, u) ELSE [ok |-> FALSE, val |-> 0, next |-> 1]
      s2 == IF b.ok THEN ScanSlash(s, b.next) ELSE [ok |-> FALSE, next |-> 1]
      c == IF s2.ok THEN ScanInt(s, s2.next, u) ELSE [ok |-> FALSE, val |-> 0, next |-> 1]
  IN [matches |-> IF ~a.ok THEN 0 ELSE IF ~b.ok THEN 1 ELSE IF ~c.ok THEN 2 ELSE 3,
      day |-> a.val, month |-> b.val, year |-> c.val]

(* ---------------------------- date validation -------------------------- *)

\* is_leap_year without the century rules
is_leap_year_julian(year) == CRem(year, 4) = 0

is_leap_year(year) ==
  IF CRem(year, 400) = 0 THEN TRUE
  ELSE IF CRem(year, 100) # 0 /\ CRem(year, 4) = 0 THEN TRUE
  ELSE FALSE

days_in_month == <<31, 28, 31, 30, 31, 30, 31, 31, 30, 31, 30, 31>>

\* the checks of is_valid_date on the three extracted integers
DateChecks(day, month, year) ==
  IF year < 1 THEN FALSE
  ELSE IF month < 1 \/ month > 12 THEN FALSE
  ELSE IF day < 1 THEN FALSE
  ELSE IF month = 2 /\ is_leap_year(year)
       THEN ~(day > 29)
       ELSE ~(day > days_in_month[month])

is_valid_date(s, u) ==
  LET r == Sscanf(s, u)
  IN IF r.matches # 3 THEN FALSE ELSE DateChecks(r.day, r.month, r.year)

\* Canonicalize returning the line as it was typed
Canonicalize_raw(s, u) == s

\* the text get_date_input returns for an input line that passed validation
Canonicalize(s, u) ==
  LET r == Sscanf(s, u)
  IN FormatInt(r.day) \o <<SLASH>> \o FormatInt(r.month) \o <<SLASH>> \o FormatInt(r.year)

(* ---------------------------- persistence codec ------------------------ *)

NoFile == [exists |-> FALSE, data |-> <<>>]

Quoted(f) == <<QUOTE>> \o f \o <<QUOTE>>

\* ItemLine with the flag written as by std::boolalpha
ItemLine_boolalpha(item) ==
  Quoted(item.title) \o <<COMMA>> \o Quoted(item.description) \o <<COMMA>>
    \o Quoted(item.due_date) \o <<COMMA>>
    \o Quoted(IF item.completed THEN <<"t", "r", "u", "e">> ELSE <<"f", "a", "l", "s", "e">>)
    \o <<NL>>

\* one line of save.csv, with the endl
ItemLine(item) ==
  Quoted(item.title) \o <<COMMA>> \o Quoted(item.description) \o <<COMMA>>
    \o Quoted(item.due_date) \o <<COMMA>>
    \o Quoted(IF item.completed THEN <<"1">> ELSE <<"0">>) \o <<NL>>

RECURSIVE WriteItems(_)
WriteItems(items) ==
  IF items = <<>> THEN <<>> ELSE ItemLine(Head(items)) \o WriteItems(Tail(items))

\* the file save_data leaves behind
save_data(items) == [exists |-> TRUE, data |-> WriteItems(items)]

\* index of the first newline at or after i, or Len+1
RECURSIVE LineEnd(_, _)
LineEnd(d, i) == IF i <= Len(d) /\ d[i] # NL THEN LineEnd(d, i + 1) ELSE i

\* the lines successive getline calls deliver
RECURSIVE GetLines(_, _)
GetLines(d, i) ==
  IF i > Len(d) THEN <<>>
  ELSE LET e == LineEnd(d, i)
       IN <<SubSeq(d, i, e - 1)>> \o GetLines(d, e + 1)

\* index of the first quote at or after i, or Len+1
RECURSIVE NextQuote(_, _)
NextQuote(l, i) == IF i <= Len(l) /\ l[i] # QUOTE THEN NextQuote(l, i + 1) ELSE i

\* match k more fields "([^"]*)" separated by commas, the opening quote
\* expected at index p; the captures, or the empty sequence when there is
\* no match at p
RECURSIVE MatchFields(_, _, _)
MatchFields(l, p, k) ==
  IF p > Len(l) \/ l[p] # QUOTE THEN <<>>
  ELSE LET q == NextQuote(l, p + 1)
           cap == SubSeq(l, p + 1, q - 1)
       IN IF q > Len(l) THEN <<>>
          ELSE IF k = 1 THEN <<cap>>
          ELSE IF q + 1 <= Len(l) /\ l[q + 1] = COMMA
               THEN LET rest == MatchFields(l, q + 2, k - 1)
                    IN IF Len(rest) = 0 THEN <<>> ELSE <<cap>> \o rest
               ELSE <<>>

\* regex_search(line, matches, pattern): the leftmost match; an unmatched
\* match_results gives the empty string for every str(n)
RECURSIVE SearchFrom(_, _)
SearchFrom(l, s) ==
  IF s > Len(l) THEN <<<<>>, <<>>, <<>>, <<>>>>
  ELSE LET m == MatchFields(l, s, 4)
       IN IF Len(m) = 0 THEN SearchFrom(l, s + 1) ELSE m

regex_search(l) == SearchFrom(l, 1)

\* ParseLine taking every fourth field but 0 as completed
ParseLine_nonzero(l) ==
  LET m == regex_search(l)
  IN [title |-> m[1], description |-> m[2], due_date |-> m[3],
      completed |-> (m[4] # <<"0">>)]

\* the TodoItem retrieve_data builds from one line
ParseLine(l) ==
  LET m == regex_search(l)
  IN [title |-> m[1], description |-> m[2], due_date |-> m[3],
      completed |-> (m[4] = <<"1">>)]

\* the list retrieve_data returns for a backing file
retrieve_data(f) ==
  IF ~f.exists THEN <<>>
  ELSE LET ls == GetLines(f.data, 1)
       IN [i \in 1..Len(ls) |-> ParseLine(ls[i])]


(* ---------------------------- record store ----------------------------- *)

\* todo_items[pos] for a zero-based pos; outside the vector the read is
\* undefined and is taken to deliver a default item
ItemAt(items, pos) ==
  IF pos + 1 \in DOMAIN items THEN items[pos + 1] ELSE EmptyItem

\* todo_items[pos] = item for a zero-based pos
SetAt(items, pos, item) ==
  IF pos + 1 \in DOMAIN items THEN [items EXCEPT ![pos + 1] = item] ELSE items

\* Erase at the one-based instead of the zero-based position
Erase_external(items, pos) ==
  IF pos + 2 \in DOMAIN items
  THEN SubSeq(items, 1, pos + 1) \o SubSeq(items, pos + 3, Len(items))
  ELSE SubSeq(items, 1, Len(items) - 1)

\* todo_items.erase(todo_items.begin() + pos)
Erase(items, pos) ==
  IF pos + 1 \in DOMAIN items
  THEN SubSeq(items, 1, pos) \o SubSeq(items, pos + 2, Len(items))
  ELSE items

\* cin >> input_num on one line of input: the int read, or a failed
\* extraction (no number, or a number that does not fit an int)
ReadInt(line) ==
  LET j == SkipSpace(line, 1)
      signed == j <= Len(line) /\ line[j] \in {"+", "-"}
      k == IF signed THEN j + 1 ELSE j
      e == DigitsEnd(line, k)
      sgn == IF signed /\ line[j] = "-" THEN 0 - 1 ELSE 1
      r == Accumulate(line, k, e, sgn, [val |-> 0, ovf |-> FALSE])
  IN IF e = k \/ r.ovf THEN [ok |-> FALSE, val |-> 0]
     ELSE [ok |-> TRUE, val |-> r.val]

\* cin >> choice / cin >> command: the first character that is not white
\* space, or "" while the line holds none
ReadChar(line) ==
  LET j == SkipSpace(line, 1)
  IN IF j <= Len(line) THEN line[j] ELSE ""

MsgAbort == "Abort task."
MsgRange == "Task number is out of range."
MsgNaN == "What you've entered is not a number."
MsgAlready == "Task is already marked as completed."
MsgMarked == "Task marked as completed."
MsgAdded == "Task added successfully"
MsgEdited == "Task edited successfully"
MsgDeleted == "Task deleted successfully."
MsgCancelled == "Delete operation cancelled."
MsgBadDate == "Please enter a valid date: "
MsgBadCommand == "Invalid input. Please enter a number within range 1-6: "
MsgView == "All Tasks"

\* get_item_position with the range test against size() + 1
get_item_position_inclusive(line, n) ==
  LET r == ReadInt(line)
  IN IF r.ok
     THEN IF r.val = 0 THEN [returns |-> TRUE, pos |-> 0 - 1, out |-> MsgAbort]
          ELSE IF r.val >= 1 /\ r.val <= n + 1
               THEN [returns |-> TRUE, pos |-> r.val - 1, out |-> ""]
               ELSE [returns |-> FALSE, pos |-> NoPos, out |-> MsgRange]
     ELSE [returns |-> FALSE, pos |-> NoPos, out |-> MsgNaN]

\* one pass of the loop of get_item_position on a line of input, for a
\* list of n items: what it reports and the value it returns, if it returns
get_item_position(line, n) ==
  LET r == ReadInt(line)
  IN IF r.ok
     THEN IF r.val = 0 THEN [returns |-> TRUE, pos |-> 0 - 1, out |-> MsgAbort]
          ELSE IF r.val >= 1 /\ r.val <= n
               THEN [returns |-> TRUE, pos |-> r.val - 1, out |-> ""]
               ELSE [returns |-> FALSE, pos |-> NoPos, out |-> MsgRange]
     ELSE [returns |-> FALSE, pos |-> NoPos, out |-> MsgNaN]

\* mark_item flipping the flag instead of testing it
mark_item_toggle(items, pos) ==
  [items |-> SetAt(items, pos, [ItemAt(items, pos) EXCEPT !.completed = ~ItemAt(items, pos).completed]),
   out |-> MsgMarked]

\* the body of mark() once a position was returned
mark_item(items, pos) ==
  IF ItemAt(items, pos).completed
  THEN [items |-> items, out |-> MsgAlready]
  ELSE [items |-> SetAt(items, pos, [ItemAt(items, pos) EXCEPT !.completed = TRUE]),
        out |-> MsgMarked]

\* Confirmed without the upper-case alternative
Confirmed_lower(choice) == choice = "y"

\* the test remove() makes on the character read as the user's choice
Confirmed(choice) == choice = "y" \/ choice = "Y"


(* ---------------------------- inputs ----------------------------------- *)

D_5_3_2025 == <<"5", "/", "3", "/", "2", "0", "2", "5">>
D_29_2_2024 == <<"2", "9", "/", "2", "/", "2", "0", "2", "4">>

\* lines typed at a Title prompt
TitleInputs == {<<>>, <<"a">>}

\* lines typed at a Description prompt
DescInputs == {<<"d">>, <<QUOTE, COMMA, QUOTE>>}

\* a date padded with zeros, spaces and trailing text
D_padded == <<" ", "0", "5", " ", "/", " ", "0", "3", " ", "/", "2", "0", "2", "5", "x">>

\* a day that does not fit an int: 4294967301 = 2^32 + 5
D_overflow == <<"4", "2", "9", "4", "9", "6", "7", "3", "0", "1", "/", "3", "/", "2", "0", "2", "5">>

\* lines typed at a Due Date prompt: plain, padded, a leap day, a day that
\* does not exist, and a number too large for an int
DateInputs ==
  { D_5_3_2025, D_padded, D_29_2_2024,
    <<"2", "9", "/", "2", "/", "2", "0", "2", "3">>,
    D_overflow }

\* what a %d conversion may store for a number that does not fit an int
\* (undefined by the C standard): its low 32 bits, INT_MAX, or -1
OverflowOutcomes == {5, 0 - 1, IntMax}

\* lines typed at a task-number prompt
PosInputs ==
  { FormatInt(n) : n \in (0 - 1)..(MaxItems + 2) }
    \cup { <<"x">>, <<"9", "9", "9", "9", "9", "9", "9", "9", "9", "9">> }

\* lines typed at the [y/n] prompt
ConfirmInputs ==
  { <<"y">>, <<"y", "e", "s">>, <<"Y", "E", "S">>, <<" ", "Y", "u", "p">>,
    <<"n">>, <<"n", "y">> }

\* lines typed at the menu
CommandInputs == { <<c>> : c \in {"1", "2", "3", "4", "5", "6", "7"} }

\* task lists an earlier run of the program can have saved on Exit
PriorLists ==
  { <<>>,
    << [title |-> <<"a">>, description |-> <<"d">>, due_date |-> D_5_3_2025,
        completed |-> TRUE] >>,
    << [title |-> <<"a">>, description |-> <<QUOTE, COMMA, QUOTE>>,
        due_date |-> D_29_2_2024, completed |-> FALSE] >>,
    << [title |-> <<"a">>, description |-> <<"d">>, due_date |-> D_5_3_2025,
        completed |-> FALSE],
       [title |-> <<"a">>, description |-> <<"d">>, due_date |-> D_29_2_2024,
        completed |-> TRUE],
       [title |-> <<"a">>, description |-> <<QUOTE, COMMA, QUOTE>>,
        due_date |-> D_29_2_2024, completed |-> FALSE] >> }

(* ---------------------------- the program ------------------------------ *)

NoDate == [state |-> "none", value |-> FALSE]

\* the process as main() is entered: save.csv is absent (first run) or is
\* what an earlier run saved
Init ==
  /\ pc = "start"
  /\ todo_items = <<>>
  /\ file \in {NoFile} \cup { save_data(l) : l \in PriorLists }
  /\ task = EmptyItem
  /\ item_position = NoPos
  /\ cin_line = <<>>
  /\ msg = ""
  /\ reads = 0
  /\ writes = 0
  /\ date_str = <<>>
  /\ date_res = NoDate

\* main(): todo_items = retrieve_data()
Load ==
  /\ pc = "start"
  /\ todo_items' = retrieve_data(file)
  /\ reads' = reads + 1
  /\ pc' = "menu"
  /\ UNCHANGED <<file, task, item_position, cin_line, msg, writes, date_str, date_res>>

\* Exit without the call of save_data
Exit_nosave ==
  /\ pc' = "done"
  /\ msg' = ""
  /\ UNCHANGED <<todo_items, file, task, item_position, reads, writes>>

\* main(): case '6', save_data() and return
Exit ==
  /\ file' = save_data(todo_items)
  /\ writes' = writes + 1
  /\ pc' = "done"
  /\ msg' = ""
  /\ UNCHANGED <<todo_items, task, item_position, reads>>

\* main(): one command read at the menu and dispatched
Command(line) ==
  /\ pc = "menu"
  /\ ReadChar(line) # ""
  /\ cin_line' = line
  /\ UNCHANGED <<date_str, date_res>>
  /\ LET command == ReadChar(line)
     IN CASE command = "1" ->
               /\ Len(todo_items) < MaxItems
               /\ pc' = "add_title"
               /\ task' = EmptyItem
               /\ msg' = ""
               /\ UNCHANGED <<todo_items, file, item_position, reads, writes>>
          [] command = "2" ->
               /\ pc' = "pause"
               /\ msg' = MsgView
               /\ UNCHANGED <<todo_items, file, task, item_position, reads, writes>>
          [] command \in {"3", "4", "5"} ->
               /\ pc' = CASE command = "3" -> "mark_pos"
                          [] command = "4" -> "edit_pos"
                          [] OTHER -> "remove_pos"
               /\ msg' = ""
               /\ UNCHANGED <<todo_items, file, task, item_position, reads, writes>>
          [] command = "6" -> Exit
          [] OTHER ->
               /\ msg' = MsgBadCommand
               /\ UNCHANGED <<pc, todo_items, file, task, item_position, reads, writes>>

\* main(): "Press enter to continue", then the screen is cleared
Continue ==
  /\ pc = "pause"
  /\ pc' = "menu"
  /\ msg' = ""
  /\ cin_line' = <<>>
  /\ item_position' = NoPos
  /\ task' = EmptyItem
  /\ date_str' = <<>>
  /\ UNCHANGED <<todo_items, file, reads, writes, date_res>>

\* add(): the title is read
AddTitle(line) ==
  /\ pc = "add_title"
  /\ IF line = <<>>
     THEN /\ msg' = MsgAbort
          /\ pc' = "pause"
          /\ task' = EmptyItem
     ELSE /\ task' = [task EXCEPT !.title = line]
          /\ pc' = "add_desc"
          /\ msg' = ""
  /\ UNCHANGED <<todo_items, file, item_position, cin_line, reads, writes, date_str, date_res>>

\* add(): the description is read
AddDesc(line) ==
  /\ pc = "add_desc"
  /\ task' = [task EXCEPT !.description = line]
  /\ pc' = "add_date"
  /\ UNCHANGED <<todo_items, file, item_position, cin_line, msg, reads, writes, date_str, date_res>>

\* add(): one line read by get_date_input; a valid one ends the command
AddDate(line) ==
  /\ pc = "add_date"
  /\ \E u \in OverflowOutcomes :
       IF is_valid_date(line, u)
       THEN /\ todo_items' = Append(todo_items, [task EXCEPT !.due_date = Canonicalize(line, u)])
            /\ msg' = MsgAdded
            /\ pc' = "pause"
            /\ task' = EmptyItem
            /\ date_str' = line
       ELSE /\ msg' = MsgBadDate
            /\ date_str' = line
            /\ UNCHANGED <<pc, todo_items, task>>
  /\ UNCHANGED <<file, item_position, cin_line, reads, writes, date_res>>

\* mark(): one line read by get_item_position, and the marking if it returns
Mark(line) ==
  /\ pc = "mark_pos"
  /\ cin_line' = line
  /\ LET r == get_item_position(line, Len(todo_items))
     IN IF ~r.returns
        THEN /\ msg' = r.out
             /\ UNCHANGED <<pc, todo_items, item_position>>
        ELSE /\ item_position' = r.pos
             /\ pc' = "pause"
             /\ IF r.pos = 0 - 1
                THEN /\ msg' = r.out
                     /\ UNCHANGED todo_items
                ELSE /\ todo_items' = mark_item(todo_items, r.pos).items
                     /\ msg' = mark_item(todo_items, r.pos).out
  /\ UNCHANGED <<file, task, reads, writes, date_str, date_res>>

\* edit(): one line read by get_item_position, and the copy of the task
EditPos(line) ==
  /\ pc = "edit_pos"
  /\ cin_line' = line
  /\ LET r == get_item_position(line, Len(todo_items))
     IN IF ~r.returns
        THEN /\ msg' = r.out
             /\ UNCHANGED <<pc, task, item_position>>
        ELSE /\ item_position' = r.pos
             /\ msg' = r.out
             /\ IF r.pos = 0 - 1
                THEN /\ pc' = "pause"
                     /\ UNCHANGED task
                ELSE /\ pc' = "edit_title"
                     /\ task' = ItemAt(todo_items, r.pos)
  /\ UNCHANGED <<todo_items, file, reads, writes, date_str, date_res>>

\* edit(): the new title is read
EditTitle(line) ==
  /\ pc = "edit_title"
  /\ IF line = <<>>
     THEN /\ msg' = MsgAbort
          /\ pc' = "pause"
          /\ task' = EmptyItem
     ELSE /\ task' = [task EXCEPT !.title = line]
          /\ pc' = "edit_desc"
          /\ msg' = ""
  /\ UNCHANGED <<todo_items, file, item_position, cin_line, reads, writes, date_str, date_res>>

\* EditDesc with task bound by reference to the element of todo_items
EditDesc_inplace(line) ==
  /\ pc = "edit_desc"
  /\ task' = [task EXCEPT !.description = line]
  /\ todo_items' = SetAt(todo_items, item_position, [task EXCEPT !.description = line])
  /\ pc' = "edit_date"
  /\ UNCHANGED <<file, item_position, cin_line, msg, reads, writes, date_str, date_res>>

\* edit(): the new description is read
EditDesc(line) ==
  /\ pc = "edit_desc"
  /\ task' = [task EXCEPT !.description = line]
  /\ pc' = "edit_date"
  /\ UNCHANGED <<todo_items, file, item_position, cin_line, msg, reads, writes, date_str, date_res>>

\* edit(): one line read by get_date_input; a valid one replaces the task
EditDate(line) ==
  /\ pc = "edit_date"
  /\ \E u \in OverflowOutcomes :
       IF is_valid_date(line, u)
       THEN /\ todo_items' = SetAt(todo_items, item_position,
                                   [task EXCEPT !.due_date = Canonicalize(line, u)])
            /\ msg' = MsgEdited
            /\ pc' = "pause"
            /\ task' = EmptyItem
            /\ date_str' = line
       ELSE /\ msg' = MsgBadDate
            /\ date_str' = line
            /\ UNCHANGED <<pc, todo_items, task>>
  /\ UNCHANGED <<file, item_position, cin_line, reads, writes, date_res>>

\* remove(): one line read by get_item_position
RemovePos(line) ==
  /\ pc = "remove_pos"
  /\ cin_line' = line
  /\ LET r == get_item_position(line, Len(todo_items))
     IN IF ~r.returns
        THEN /\ msg' = r.out
             /\ UNCHANGED <<pc, item_position>>
        ELSE /\ item_position' = r.pos
             /\ msg' = r.out
             /\ pc' = IF r.pos = 0 - 1 THEN "pause" ELSE "remove_confirm"
  /\ UNCHANGED <<todo_items, file, task, reads, writes, date_str, date_res>>

\* remove(): the choice is read and acted on
RemoveConfirm(line) ==
  /\ pc = "remove_confirm"
  /\ ReadChar(line) # ""
  /\ cin_line' = line
  /\ IF Confirmed(ReadChar(line))
     THEN /\ todo_items' = Erase(todo_items, item_position)
          /\ msg' = MsgDeleted
     ELSE /\ msg' = MsgCancelled
          /\ UNCHANGED todo_items
  /\ pc' = "pause"
  /\ UNCHANGED <<file, task, item_position, reads, writes, date_str, date_res>>

Next ==
  \/ Load
  \/ \E line \in CommandInputs : Command(line)
  \/ Continue
  \/ \E line \in TitleInputs : AddTitle(line)
  \/ \E line \in DescInputs : AddDesc(line)
  \/ \E line \in DateInputs : AddDate(line)
  \/ \E line \in PosInputs : Mark(line)
  \/ \E line \in PosInputs : EditPos(line)
  \/ \E line \in TitleInputs : EditTitle(line)
  \/ \E line \in DescInputs : EditDesc(line)
  \/ \E line \in DateInputs : EditDate(line)
  \/ \E line \in PosInputs : RemovePos(line)
  \/ \E line \in ConfirmInputs : RemoveConfirm(line)

Spec == Init /\ [][Next]_vars

(* ---------------------------- the date validator alone ----------------- *)

DateDays == {0 - 1, 0, 1, 28, 29, 30, 31, 32}
DateMonths == 0..13
DateYears == ((0 - 4)..MaxYear) \cup {1900, 2000, 2023, 2024}

DateText(d, m, y) ==
  FormatInt(d) \o <<SLASH>> \o FormatInt(m) \o <<SLASH>> \o FormatInt(y)

\* a date string "d/m/y" about to be handed to the validator
InitDate ==
  /\ pc = "date"
  /\ date_str \in { DateText(d, m, y) : d \in DateDays, m \in DateMonths, y \in DateYears }
  /\ date_res = NoDate
  /\ todo_items = <<>>
  /\ file = NoFile
  /\ task = EmptyItem
  /\ item_position = NoPos
  /\ cin_line = <<>>
  /\ msg = ""
  /\ reads = 0
  /\ writes = 0

\* is_valid_date(date_str) is called
ValidateDate ==
  /\ pc = "date"
  /\ date_res.state = "none"
  /\ \E u \in OverflowOutcomes :
       date_res' = [state |-> "valid", value |-> is_valid_date(date_str, u)]
  /\ UNCHANGED <<pc, todo_items, file, task, item_position, cin_line, msg, reads,
                 writes, date_str>>

\* is_leap_year is called on the year of date_str
LeapYear ==
  /\ pc = "date"
  /\ date_res.state = "none"
  /\ date_res' = [state |-> "leap", value |-> is_leap_year(Sscanf(date_str, 0).year)]
  /\ UNCHANGED <<pc, todo_items, file, task, item_position, cin_line, msg, reads,
                 writes, date_str>>

NextDate == ValidateDate \/ LeapYear

SpecDate == InitDate /\ [][NextDate]_vars

(* ---------------------------- the codec alone -------------------------- *)

SeqsUpTo(S, n) == UNION { [1..k -> S] : k \in 0..n }

CodecItems ==
  [ title : {<<>>, <<"a", COMMA>>, <<QUOTE>>},
    description : {<<>>, <<"d">>, <<NL>>},
    due_date : {<<>>, D_5_3_2025},
    completed : BOOLEAN ]

\* a line "f1","f2","f3","f4"
FourFields(f1, f2, f3, f4) ==
  Quoted(f1) \o <<COMMA>> \o Quoted(f2) \o <<COMMA>> \o Quoted(f3) \o <<COMMA>> \o Quoted(f4)

\* lines a backing file may hold: well formed with several fourth fields,
\* a match inside other text, and lines that do not match
LineSamples ==
  { FourFields(<<"a">>, <<"b", COMMA>>, <<"c">>, <<"1">>),
    FourFields(<<"t">>, <<>>, D_5_3_2025, <<"0">>),
    FourFields(<<"a">>, <<"b">>, <<"c">>, <<"1", "1">>),
    FourFields(<<"a">>, <<"b">>, <<"c">>, <<>>),
    <<"x">> \o FourFields(<<"a">>, <<"b">>, <<"c">>, <<"1">>) \o <<"y">>,
    <<>>,
    <<"a", COMMA, "b", COMMA, "c", COMMA, "1">>,
    Quoted(<<"a">>) \o <<COMMA>> \o Quoted(<<"b">>) \o <<COMMA>> \o Quoted(<<"1">>),
    Quoted(<<"a">>) \o <<COMMA>> \o Quoted(<<"b">>) \o <<COMMA>> \o Quoted(<<"c">>)
      \o <<COMMA, QUOTE, "1">> }

RECURSIVE JoinLines(_)
JoinLines(ls) == IF ls = <<>> THEN <<>> ELSE Head(ls) \o <<NL>> \o JoinLines(Tail(ls))

\* file contents of up to MaxLines lines, the last with or without its newline
CodecFiles ==
  LET full == { JoinLines(ls) : ls \in SeqsUpTo(LineSamples, MaxLines) }
  IN { [exists |-> TRUE, data |-> d] : d \in full }
       \cup { [exists |-> TRUE, data |-> SubSeq(d, 1, Len(d) - 1)] : d \in full \ {<<>>} }

\* either a list in memory and no file yet, or a file on disk and no list
InitCodec ==
  /\ \/ /\ pc = "codec"
        /\ todo_items \in SeqsUpTo(CodecItems, MaxLines)
        /\ file = NoFile
     \/ /\ pc = "disk"
        /\ todo_items = <<>>
        /\ file \in CodecFiles \cup {NoFile}
  /\ task = EmptyItem
  /\ item_position = NoPos
  /\ cin_line = <<>>
  /\ msg = ""
  /\ reads = 0
  /\ writes = 0
  /\ date_str = <<>>
  /\ date_res = NoDate

\* save_data() on the list in memory
CodecSave ==
  /\ pc = "codec"
  /\ file' = save_data(todo_items)
  /\ writes' = writes + 1
  /\ pc' = "saved"
  /\ UNCHANGED <<todo_items, task, item_position, cin_line, msg, reads, date_str, date_res>>

\* todo_items = retrieve_data() on the file on disk
CodecLoad ==
  /\ pc \in {"saved", "disk"}
  /\ todo_items' = retrieve_data(file)
  /\ reads' = reads + 1
  /\ pc' = IF pc = "saved" THEN "reloaded" ELSE "loaded"
  /\ UNCHANGED <<file, task, item_position, cin_line, msg, writes, date_str, date_res>>

NextCodec == CodecSave \/ CodecLoad

SpecCodec == InitCodec /\ [][NextCodec]_vars


(* ---------------------------- vocabulary of the properties ------------- *)

\* n divides y (the modulus of a negative number is taken as not negative)
Divides(n, y) == y % n = 0

\* the Gregorian leap-year rule
GregorianLeap(y) == Divides(400, y) \/ (~Divides(100, y) /\ Divides(4, y))

\* days in a month of the Gregorian calendar
MonthLength(m, y) ==
  IF m = 2 THEN (IF GregorianLeap(y) THEN 29 ELSE 28)
  ELSE IF m \in {4, 6, 9, 11} THEN 30 ELSE 31

RealDate(d, m, y) ==
  /\ y >= 1
  /\ m >= 1 /\ m <= 12
  /\ d >= 1 /\ d <= MonthLength(m, y)

\* the number a short run of digits denotes
RECURSIVE NatOf(_)
NatOf(f) == IF f = <<>> THEN 0 ELSE NatOf(SubSeq(f, 1, Len(f) - 1)) * 10 + DigitVal(f[Len(f)])

\* a field of a canonical date: digits only, no leading zero
PlainNumber(f) ==
  /\ Len(f) >= 1 /\ Len(f) <= 9
  /\ \A k \in 1..Len(f) : IsDigit(f[k])
  /\ f[1] # "0"

\* text of the form day/month/year, no padding, no spaces, a real date
IsCanonicalDate(s) ==
  LET sl == { k \in 1..Len(s) : s[k] = SLASH }
  IN /\ Cardinality(sl) = 2
     /\ LET p1 == CHOOSE k \in sl : \A j \in sl : k <= j
            p2 == CHOOSE k \in sl : \A j \in sl : k >= j
            f1 == SubSeq(s, 1, p1 - 1)
            f2 == SubSeq(s, p1 + 1, p2 - 1)
            f3 == SubSeq(s, p2 + 1, Len(s))
        IN /\ PlainNumber(f1) /\ PlainNumber(f2) /\ PlainNumber(f3)
           /\ RealDate(NatOf(f1), NatOf(f2), NatOf(f3))

HasQuote(f) == \E k \in 1..Len(f) : f[k] = QUOTE
HasNewline(f) == \E k \in 1..Len(f) : f[k] = NL

\* no field of the record holds a double quote or a line break
CleanItem(item) ==
  \A f \in {item.title, item.description, item.due_date} : ~HasQuote(f) /\ ~HasNewline(f)

\* the lines of a text, counted and cut at its newline characters
NewlinesUpTo(d, p) == Cardinality({ q \in 1..p : d[q] = NL })
LineCount(d) ==
  NewlinesUpTo(d, Len(d)) + (IF Len(d) > 0 /\ d[Len(d)] # NL THEN 1 ELSE 0)
NthNewline(d, k) ==
  IF k = 0 THEN 0
  ELSE IF NewlinesUpTo(d, Len(d)) < k THEN Len(d) + 1
  ELSE CHOOSE p \in 1..Len(d) : d[p] = NL /\ NewlinesUpTo(d, p) = k
NthLine(d, i) == SubSeq(d, NthNewline(d, i - 1) + 1, NthNewline(d, i) - 1)

\* the positions of the quotes of a text and their ranks
QuotesOf(x) == { k \in 1..Len(x) : x[k] = QUOTE }
QuoteRank(x, q) == Cardinality({ k \in QuotesOf(x) : k <= q })
NthQuote(x, r) == CHOOSE q \in QuotesOf(x) : QuoteRank(x, q) = r

\* x is exactly "f1","f2","f3","f4" with no quote inside a field
FourQuoted(x) ==
  /\ Cardinality(QuotesOf(x)) = 8
  /\ 1 \in QuotesOf(x) /\ Len(x) \in QuotesOf(x)
  /\ \A q \in QuotesOf(x) :
       QuoteRank(x, q) \in {2, 4, 6} => x[q + 1] = COMMA /\ q + 2 \in QuotesOf(x)

FieldOf(x, n) == SubSeq(x, NthQuote(x, 2 * n - 1) + 1, NthQuote(x, 2 * n) - 1)

\* some part of the line matches the four-quoted-field pattern
HasFourQuoted(l) ==
  \E a \in 1..Len(l) : \E b \in a..Len(l) : FourQuoted(SubSeq(l, a, b))

\* the confirmation is the word yes, in any letter case
IsYes(line) ==
  /\ Len(line) = 3
  /\ line[1] \in {"y", "Y"} /\ line[2] \in {"e", "E"} /\ line[3] \in {"s", "S"}

\* the first character of a line that is not a blank, or "" if there is none
FirstNonBlank(line) ==
  IF \A k \in 1..Len(line) : line[k] = " " THEN ""
  ELSE line[CHOOSE k \in 1..Len(line) :
              line[k] # " " /\ \A j \in 1..(k - 1) : line[j] = " "]

PosPrompts == {"mark_pos", "edit_pos", "remove_pos"}
AddEditPrompts == {"add_title", "add_desc", "add_date", "edit_pos", "edit_title",
                   "edit_desc", "edit_date"}

(* ---------------------------- properties ------------------------------- *)

\* C1: loading the file that save_data wrote for a list whose records hold
\* no double quote and no line break gives back the same list: same length,
\* same order, every record equal in all four fields.
C1_RoundTrip ==
  [][ (pc = "saved" /\ pc' = "reloaded" /\ \A i \in DOMAIN todo_items : CleanItem(todo_items[i]))
        => todo_items' = todo_items ]_vars

\* a two-record list with a comma in a field and a completed record came
\* back from the file written for it
C1_Witness ==
  /\ pc = "reloaded"
  /\ Len(todo_items) = 2
  /\ \A i \in DOMAIN todo_items : CleanItem(todo_items[i])
  /\ todo_items[1].title = <<"a", COMMA>>
  /\ todo_items[2].completed
  /\ file.data = ItemLine(todo_items[1]) \o ItemLine(todo_items[2])

\* C2 (as claimed): after the startup load, every due_date in the task list
\* is a canonical real date.
C2_AllDatesCanonical ==
  pc # "start" => \A i \in DOMAIN todo_items : IsCanonicalDate(todo_items[i].due_date)

\* C2 (amended): the due_date that Add or Edit stores is a canonical real
\* date, and no other step after the startup load brings a due_date into
\* the list that was not in it before.
C2_StoredDatesCanonical ==
  [][ /\ (pc = "add_date" /\ todo_items' # todo_items)
           => IsCanonicalDate(todo_items'[Len(todo_items')].due_date)
      /\ (pc = "edit_date" /\ todo_items' # todo_items)
           => IsCanonicalDate(todo_items'[item_position + 1].due_date)
      /\ (pc \notin {"start", "add_date", "edit_date"})
           => \A i \in DOMAIN todo_items' :
                \E j \in DOMAIN todo_items : todo_items'[i].due_date = todo_items[j].due_date
    ]_vars

\* Add has stored 5/3/2025 for a date typed with zeros, spaces and a tail
C2_Witness ==
  /\ pc = "pause"
  /\ msg = MsgAdded
  /\ date_str = D_padded
  /\ todo_items[Len(todo_items)].due_date = D_5_3_2025

C4_MarkOutcomes ==
  [][ pc = "mark_pos" =>
        LET r == ReadInt(cin_line')
            n == Len(todo_items)
        IN /\ (r.ok /\ r.val >= 1 /\ r.val <= n /\ ~todo_items[r.val].completed)
                => /\ msg' = MsgMarked
                   /\ todo_items' = [todo_items EXCEPT ![r.val].completed = TRUE]
           /\ (r.ok /\ r.val >= 1 /\ r.val <= n /\ todo_items[r.val].completed)
                => /\ msg' = MsgAlready
                   /\ todo_items' = todo_items
           /\ (r.ok /\ (r.val = 0 \/ r.val > n))
                => /\ msg' \in {MsgAbort, MsgRange}
                   /\ todo_items' = todo_items
           /\ msg' \in {MsgMarked, MsgAlready, MsgAbort, MsgRange, MsgNaN}
           /\ todo_items' # todo_items => msg' = MsgMarked
    ]_vars

\* Mark was asked for a record that was already completed
C4_Witness ==
  /\ pc = "pause"
  /\ msg = MsgAlready
  /\ item_position >= 0
  /\ todo_items[item_position + 1].completed

\* C5 (as claimed): Remove deletes only when the confirmation is "yes".
C5_OnlyYesDeletes ==
  [][ (pc = "remove_confirm" /\ todo_items' # todo_items) => IsYes(cin_line') ]_vars

\* C5 (amended): Remove deletes the record exactly when the first character
\* of the confirmation that is not a blank is y or Y; for every other
\* confirmation the list is unchanged.
C5_FirstCharDecides ==
  [][ pc = "remove_confirm" =>
        /\ FirstNonBlank(cin_line') \in {"y", "Y"}
             => (todo_items' # todo_items /\ msg' = MsgDeleted)
        /\ FirstNonBlank(cin_line') \notin {"y", "Y"}
             => (todo_items' = todo_items /\ msg' = MsgCancelled)
    ]_vars

\* a record was deleted on a confirmation that starts with Y but is not yes
C5_Witness ==
  /\ pc = "pause"
  /\ msg = MsgDeleted
  /\ cin_line = <<" ", "Y", "u", "p">>

\* C6: a confirmed Remove at position p of a list of n records leaves n-1
\* records: those before p where they were, those after p one place down.
C6_RemoveShifts ==
  [][ (pc = "remove_confirm" /\ msg' = MsgDeleted) =>
        LET p == item_position + 1
            n == Len(todo_items)
        IN /\ p >= 1 /\ p <= n
           /\ Len(todo_items') = n - 1
           /\ \A q \in 1..(p - 1) : todo_items'[q] = todo_items[q]
           /\ \A q \in (p + 1)..n : todo_items'[q - 1] = todo_items[q]
    ]_vars

\* position 2 of three records was removed: two are left, and the record
\* now at position 2 is the one that was saved as the third
C6_Witness ==
  /\ pc = "pause"
  /\ msg = MsgDeleted
  /\ item_position = 1
  /\ Len(todo_items) = 2
  /\ Len(retrieve_data(file)) = 3
  /\ todo_items[2] = retrieve_data(file)[3]
  /\ todo_items[2] # retrieve_data(file)[2]

\* C7: while Add or Edit is running the task list changes in one step only,
\* the last: Add appends one complete record, Edit replaces the chosen
\* record; an abort and every prompt in between leave the list as it was.
C7_AllOrNothing ==
  [][ (pc \in AddEditPrompts) =>
        \/ todo_items' = todo_items
        \/ /\ pc = "add_date" /\ pc' = "pause" /\ msg' = MsgAdded
           /\ Len(todo_items') = Len(todo_items) + 1
           /\ SubSeq(todo_items', 1, Len(todo_items)) = todo_items
           /\ LET rec == todo_items'[Len(todo_items')]
              IN /\ rec.title = task.title /\ rec.title # <<>>
                 /\ rec.description = task.description
                 /\ rec.completed = FALSE
                 /\ IsCanonicalDate(rec.due_date)
        \/ /\ pc = "edit_date" /\ pc' = "pause" /\ msg' = MsgEdited
           /\ Len(todo_items') = Len(todo_items)
           /\ \A i \in DOMAIN todo_items : i # item_position + 1 => todo_items'[i] = todo_items[i]
           /\ LET rec == todo_items'[item_position + 1]
              IN /\ rec.title = task.title /\ rec.title # <<>>
                 /\ rec.description = task.description
                 /\ rec.completed = todo_items[item_position + 1].completed
                 /\ IsCanonicalDate(rec.due_date)
    ]_vars

\* Edit is asking again for a date, holding a description that differs from
\* the one of the record in the list
C7_Witness ==
  /\ pc = "edit_date"
  /\ msg = MsgBadDate
  /\ item_position >= 0
  /\ task.description # todo_items[item_position + 1].description

\* C8: loading gives one record per line of the file, in order: a line with
\* no match of the four-quoted-field pattern gives an all-empty, not
\* completed record; a line that is four quoted fields gives those fields,
\* completed exactly when the fourth is "1"; no file gives the empty list.
C8_LoadPerLine ==
  pc = "loaded" =>
    /\ ~file.exists => todo_items = <<>>
    /\ file.exists =>
         /\ Len(todo_items) = LineCount(file.data)
         /\ \A i \in DOMAIN todo_items :
              LET l == NthLine(file.data, i)
              IN /\ ~HasFourQuoted(l) => todo_items[i] = EmptyItem
                 /\ FourQuoted(l) =>
                      todo_items[i] = [title |-> FieldOf(l, 1), description |-> FieldOf(l, 2),
                                       due_date |-> FieldOf(l, 3),
                                       completed |-> (FieldOf(l, 4) = <<"1">>)]

\* a line without quotes after a well-formed completed line gave an
\* all-empty record, and a fourth field 11 gave a record not completed
C8_Witness ==
  /\ pc = "loaded"
  /\ file.exists
  /\ Len(todo_items) = 2
  /\ \E i \in 1..2 : /\ NthLine(file.data, i) = <<"a", COMMA, "b", COMMA, "c", COMMA, "1">>
                     /\ todo_items[i] = EmptyItem
  /\ \E i \in 1..2 : /\ FourQuoted(NthLine(file.data, i))
                     /\ FieldOf(NthLine(file.data, i), 4) = <<"1", "1">>
                     /\ todo_items[i].title = <<"a">>
                     /\ ~todo_items[i].completed

\* C9: the file is read once, at startup before any command; it is written
\* once, by Exit, and no other step changes it; what Exit writes is the
\* current list, one line per record in list order.
C9_ReadOnceWriteOnExit ==
  [][ /\ reads' # reads => (pc = "start" /\ reads = 0 /\ reads' = 1)
      /\ pc' # "start" => reads' = 1
      /\ (file' # file \/ writes' # writes) => (pc = "menu" /\ pc' = "done")
      /\ pc' # "done" => writes' = 0
      /\ pc' = "done" =>
           /\ writes' = 1
           /\ file'.exists
           /\ LineCount(file'.data) = Len(todo_items)
           /\ \A i \in DOMAIN todo_items :
                NthLine(file'.data, i) =
                  FourFields(todo_items[i].title, todo_items[i].description,
                             todo_items[i].due_date,
                             IF todo_items[i].completed THEN <<"1">> ELSE <<"0">>)
    ]_vars

\* the program has exited and the file holds the two records of the list
C9_Witness ==
  /\ pc = "done"
  /\ writes = 1
  /\ Len(todo_items) = 2
  /\ file.exists
  /\ LineCount(file.data) = 2

\* C10: get_item_position accepts the number typed exactly when it is in
\* 1..len, then returns that number minus one; on 0 it returns -1; so the
\* index Mark, Edit and Remove use is always within 0..len-1.
C10_PositionInRange ==
  [][ /\ pc \in PosPrompts =>
           LET r == ReadInt(cin_line')
               n == Len(todo_items)
               accepted == pc' # pc /\ item_position' # 0 - 1
           IN /\ r.ok => (accepted <=> (r.val >= 1 /\ r.val <= n))
              /\ accepted => (r.ok /\ item_position' = r.val - 1)
              /\ (r.ok /\ r.val = 0) => (item_position' = 0 - 1 /\ pc' = "pause")
              /\ ~accepted => (pc' = pc \/ (r.ok /\ r.val = 0))
      /\ pc' \in {"edit_title", "edit_desc", "edit_date", "remove_confirm"}
           => (item_position' >= 0 /\ item_position' < Len(todo_items'))
      /\ (pc = "mark_pos" /\ todo_items' # todo_items)
           => (item_position' >= 0 /\ item_position' < Len(todo_items))
    ]_vars

\* on the empty list, position 1 was refused
C10_Witness ==
  /\ pc \in PosPrompts
  /\ todo_items = <<>>
  /\ cin_line = <<"1">>
  /\ msg = MsgRange

====
